---- MODULE Spec2Model ----
(***************************************************************************)
(* LC-3 virtual machine (reverset/lc3-rs): the instruction codec of        *)
(* src/vm/instructions.rs, the sign-extension helpers of src/bit_util.rs   *)
(* and the execution core of src/vm/machine.rs with the word accessors of  *)
(* src/main.rs.                                                            *)
(*                                                                         *)
(* Representation.  u16/u8 values are naturals, i16/i8 values are signed   *)
(* integers; an `as` cast is AsU16/AsI16/AsU8/AsI8.  A Register is its     *)
(* discriminant 0..7.  An Instruction is a tuple <<variant, operands...>>  *)
(* in the order of the Rust tuple variant; Immediate5/Offset6/PcOffset9/   *)
(* PcOffset11 are their inner signed value; DesiredConditionFlags is a     *)
(* record of three booleans.  A panic is the tuple <<"panic", message>>.   *)
(***************************************************************************)
EXTENDS Integers, Sequences, FiniteSets, TLC

VARIABLES
    call,             \* codec harness: the pure function applied and its result
    registers,        \* Machine.registers.reg : [0..7 -> i16]
    memory,           \* Machine.memory : Memory(Vec<i16>) as [len, data]
    ip,               \* Machine.ip : u16
    condition_code,   \* Machine.condition_code
    halted,           \* Machine.halted
    jumped,           \* Machine.jumped
    stdin,            \* bytes the input stream still holds
    stdout,           \* bytes written to the output stream so far
    flushed,          \* how many bytes of stdout have been flushed to the host
    io_error,         \* "none", or the call ("read", "write", "flush") the host failed
    panicked,         \* "none", or the message of the panic that unwound the call
    pc,               \* control position of the embedder: idle / loop / returned
    steps,            \* number of calls the embedder has made so far
    last              \* the last operation applied, with the state it started from

vars == <<call, registers, memory, ip, condition_code, halted, jumped, stdin,
          stdout, flushed, io_error, panicked, pc, steps, last>>

machine_vars == <<registers, memory, ip, condition_code, halted, jumped, stdin,
                  stdout, flushed, io_error, panicked, pc, steps, last>>

-----------------------------------------------------------------------------
(* Machine integers                                                        *)

U16 == 0..65535
I16 == -32768..32767
U8  == 0..255
I8  == -128..127

AsU16(x) == x % 65536
AsI16(x) == LET u == x % 65536 IN IF u >= 32768 THEN u - 65536 ELSE u
AsU8(x)  == x % 256
AsI8(x)  == LET u == x % 256 IN IF u >= 128 THEN u - 256 ELSE u

\* & and | on unsigned values, bit by bit from the low end
RECURSIVE AndBits(_, _)
AndBits(a, b) ==
    IF a = 0 \/ b = 0 THEN 0
    ELSE (IF a % 2 = 1 /\ b % 2 = 1 THEN 1 ELSE 0) + 2 * AndBits(a \div 2, b \div 2)

RECURSIVE OrBits(_, _)
OrBits(a, b) ==
    IF a = 0 THEN b
    ELSE IF b = 0 THEN a
    ELSE (IF a % 2 = 1 \/ b % 2 = 1 THEN 1 ELSE 0) + 2 * OrBits(a \div 2, b \div 2)

\* the operands are evaluated once, as values x and y, and then combined
BitAnd(a, b) == CHOOSE r \in {AndBits(x, y) : x \in {a}, y \in {b}} : TRUE

BitOr(a, b) == CHOOSE r \in {OrBits(x, y) : x \in {a}, y \in {b}} : TRUE

RECURSIVE Pow2(_)
Pow2(n) == IF n = 0 THEN 1 ELSE 2 * Pow2(n - 1)

\* u16 >> n and u16 << n
Shr(x, n) == x \div Pow2(n)
Shl16(x, n) == (x * Pow2(n)) % 65536

\* bitwise operators on the signed types, through the two's-complement pattern
I16And(a, b) == AsI16(BitAnd(AsU16(a), AsU16(b)))
I16Not(a)    == AsI16(65535 - AsU16(a))
I16Shr(a, n) == a \div Pow2(n)      \* arithmetic shift: rounds towards minus infinity
I16Or(a, b)  == AsI16(BitOr(AsU16(a), AsU16(b)))
I8And(a, b)  == AsI8(BitAnd(AsU8(a), AsU8(b)))
I8Or(a, b)   == AsI8(BitOr(AsU8(a), AsU8(b)))
I8Not(a)     == AsI8(255 - AsU8(a))

-----------------------------------------------------------------------------
(* src/bit_util.rs: sign extension of the narrow fields                    *)

i9_to_i16(x) ==
    LET MASK == 511
        val  == I16And(x, MASK)
    IN  IF I16And(val, 256) # 0 THEN I16Or(val, I16Not(MASK)) ELSE val

i6_to_i8(x) ==
    LET MASK == 63
        val  == I8And(x, MASK)
    IN  IF I8And(val, 32) # 0 THEN I8Or(val, I8Not(MASK)) ELSE val

\* mutant: the sign is tested at bit 9 instead of bit 10
i11_to_i16_bit9(x) ==
    LET MASK == 2047
        val  == I16And(x, MASK)
    IN  IF I16And(val, 512) # 0 THEN I16Or(val, I16Not(MASK)) ELSE val

i11_to_i16(x) ==
    LET MASK == 2047
        val  == I16And(x, MASK)
    IN  IF I16And(val, 1024) # 0 THEN I16Or(val, I16Not(MASK)) ELSE val

\* mutant: the sign is tested at bit 3 instead of bit 4
i5_to_i8_bit3(x) ==
    LET MASK == 31
        val  == I8And(x, MASK)
    IN  IF I8And(val, 8) # 0 THEN I8Or(val, I8Not(MASK)) ELSE val

i5_to_i8(x) ==
    LET MASK == 31
        val  == I8And(x, MASK)
    IN  IF I8And(val, 16) # 0 THEN I8Or(val, I8Not(MASK)) ELSE val

\* check_i9_range, check_i6_range, check_i5_range, check_i11_range: the unit
\* value when the assertion holds, its panic when it fails
Unit == <<"unit">>
AssertionFailed == <<"panic", "assertion failed">>

check_i9_range(x) == IF x \in -256..255 THEN Unit ELSE AssertionFailed
check_i6_range(x) == IF x \in -32..31 THEN Unit ELSE AssertionFailed
check_i5_range(x) == IF x \in -8..7 THEN Unit ELSE AssertionFailed
check_i11_range(x) == IF x \in -1024..1023 THEN Unit ELSE AssertionFailed

-----------------------------------------------------------------------------
(* src/vm/instructions.rs: operand types                                   *)

InvalidRegister == <<"panic", "Invalid register">>
InvalidOpcode   == <<"panic", "Invalid opcode!">>

\* impl From<u16> for Register; the panicking arm is the value -1, which Built
\* below turns into the panic of the enclosing call
Register_from(value) == IF value \in 0..7 THEN value ELSE -1

\* impl From<i16> for Immediate5 / Offset6 / PcOffset9 / PcOffset11
Immediate5_from(value) == i5_to_i8(AsI8(I16And(value, 31)))
Offset6_from(value)    == i6_to_i8(AsI8(I16And(value, 63)))
PcOffset9_from(value)  == i9_to_i16(I16And(value, 511))
PcOffset11_from(value) == i11_to_i16(I16And(value, 2047))

\* mutant: the positive flag sets the zero bit
into_flags_positive_as_zero(f) ==
    LET r1 == IF f.negative THEN BitOr(0, 4) ELSE 0
        r2 == IF f.zero THEN BitOr(r1, 2) ELSE r1
    IN  IF f.positive THEN BitOr(r2, 2) ELSE r2

\* DesiredConditionFlags::into_flags
into_flags(f) ==
    LET r1 == IF f.negative THEN BitOr(0, 4) ELSE 0
        r2 == IF f.zero THEN BitOr(r1, 2) ELSE r1
    IN  IF f.positive THEN BitOr(r2, 1) ELSE r2

\* mutant: the negative flag is read from the zero bit
DesiredConditionFlags_from_zero_bit(value) ==
    [negative |-> BitAnd(value, 2) # 0,
     zero     |-> BitAnd(value, 2) # 0,
     positive |-> BitAnd(value, 1) # 0]

\* impl From<u16> for DesiredConditionFlags
DesiredConditionFlags_from(value) ==
    [negative |-> BitAnd(value, 4) # 0,
     zero     |-> BitAnd(value, 2) # 0,
     positive |-> BitAnd(value, 1) # 0]

-----------------------------------------------------------------------------
(* src/vm/instructions.rs: Instruction::decode                             *)

\* mutant: the opcode mask is 0b111
get_header_three_bits(instr) == AsU8(BitAnd(Shr(instr, 12), 7))

get_header(instr) == AsU8(BitAnd(Shr(instr, 12), 15))

\* a register conversion that panicked unwinds the whole decode
Built(regs, instruction) ==
    IF \E r \in regs : r < 0 THEN InvalidRegister ELSE instruction

decode(instr) ==
    LET header == get_header(instr)
        r9     == Register_from(BitAnd(Shr(instr, 9), 7))
        r6     == Register_from(BitAnd(Shr(instr, 6), 7))
        r0     == Register_from(BitAnd(instr, 7))
        sword  == AsI16(instr)
    IN  CASE header \in {1, 5} ->
               LET is_immediate == BitAnd(Shr(instr, 5), 1) # 0
               IN  IF is_immediate
                   THEN IF header = 1
                        THEN Built({r9, r6}, <<"AddImmediate", r9, r6, Immediate5_from(sword)>>)
                        ELSE Built({r9, r6}, <<"AndImmediate", r9, r6, Immediate5_from(sword)>>)
                   ELSE IF header = 1
                        THEN Built({r9, r6, r0}, <<"Add", r9, r6, r0>>)
                        ELSE Built({r9, r6, r0}, <<"And", r9, r6, r0>>)
          [] header = 0 ->
               <<"Branch", DesiredConditionFlags_from(BitAnd(Shr(instr, 9), 7)),
                 PcOffset9_from(sword)>>
          [] header = 12 -> Built({r6}, <<"Jump", r6>>)
          [] header = 4 ->
               LET is_jsr == BitAnd(Shr(instr, 11), 1) # 0
               IN  IF is_jsr
                   THEN <<"JumpSubroutine", PcOffset11_from(sword)>>
                   ELSE Built({r6}, <<"JumpSubroutineRegister", r6>>)
          [] header \in {2, 10} ->
               IF header = 2
               THEN Built({r9}, <<"Load", r9, PcOffset9_from(sword)>>)
               ELSE Built({r9}, <<"LoadIndirect", r9, PcOffset9_from(sword)>>)
          [] header = 6 ->
               Built({r9, r6}, <<"LoadRegister", r9, r6, Offset6_from(sword)>>)
          [] header = 14 ->
               Built({r9}, <<"LoadEffectiveAddress", r9, PcOffset9_from(sword)>>)
          [] header = 9 -> Built({r9, r6}, <<"Not", r9, r6>>)
          [] header = 8 -> <<"ReturnToInterrupt">>
          [] header \in {3, 11} ->
               IF header = 3
               THEN Built({r9}, <<"Store", r9, PcOffset9_from(sword)>>)
               ELSE Built({r9}, <<"StoreIndirect", r9, PcOffset9_from(sword)>>)
          [] header = 7 ->
               Built({r9, r6}, <<"StoreRegister", r9, r6, Offset6_from(sword)>>)
          [] header = 15 -> <<"Trap", AsU8(instr)>>
          [] header = 13 -> <<"Reserved">>
          [] OTHER -> InvalidOpcode

-----------------------------------------------------------------------------
(* src/vm/instructions.rs: Instruction::encode                             *)

\* (imm5.into_inner() & 0b11111) as u16 and its wider siblings
\* mutant: the immediate is cast without its mask
imm5_bits_unmasked(imm5) == AsU16(imm5)

imm5_bits(imm5)       == AsU16(I8And(imm5, 31))
offset6_bits(offset)  == AsU16(I8And(offset, 63))
offset9_bits(offset)  == AsU16(I16And(offset, 511))
offset11_bits(offset) == AsU16(I16And(offset, 2047))

encode(i) ==
    LET v == i[1]
    IN  CASE v = "Add" ->
               BitOr(BitOr(BitOr(Shl16(1, 12), Shl16(i[2], 9)), Shl16(i[3], 6)), i[4])
          [] v = "AddImmediate" ->
               BitOr(BitOr(BitOr(BitOr(Shl16(1, 12), Shl16(i[2], 9)), Shl16(i[3], 6)),
                           Shl16(1, 5)),
                     imm5_bits(i[4]))
          [] v = "And" ->
               BitOr(BitOr(BitOr(BitOr(Shl16(1, 14), Shl16(1, 12)), Shl16(i[2], 9)),
                           Shl16(i[3], 6)),
                     i[4])
          [] v = "AndImmediate" ->
               BitOr(BitOr(BitOr(BitOr(Shl16(5, 12), Shl16(i[2], 9)), Shl16(i[3], 6)),
                           Shl16(1, 5)),
                     imm5_bits(i[4]))
          [] v = "Branch" ->
               BitOr(Shl16(BitAnd(into_flags(i[2]), 7), 9), offset9_bits(i[3]))
          [] v = "Jump" -> BitOr(Shl16(12, 12), Shl16(i[2], 6))
          [] v = "JumpSubroutine" ->
               BitOr(BitOr(Shl16(4, 12), Shl16(1, 11)), offset11_bits(i[2]))
          [] v = "JumpSubroutineRegister" -> BitOr(Shl16(4, 12), Shl16(i[2], 6))
          [] v = "Load" ->
               BitOr(BitOr(Shl16(2, 12), Shl16(i[2], 9)), offset9_bits(i[3]))
          [] v = "LoadIndirect" ->
               BitOr(BitOr(Shl16(10, 12), Shl16(i[2], 9)), offset9_bits(i[3]))
          [] v = "LoadRegister" ->
               BitOr(BitOr(BitOr(Shl16(6, 12), Shl16(i[2], 9)), Shl16(i[3], 6)),
                     offset6_bits(i[4]))
          [] v = "LoadEffectiveAddress" ->
               BitOr(BitOr(Shl16(14, 12), Shl16(i[2], 9)), offset9_bits(i[3]))
          [] v = "Not" ->
               BitOr(BitOr(BitOr(Shl16(9, 12), Shl16(i[2], 9)), Shl16(i[3], 6)), 63)
          [] v = "ReturnToInterrupt" -> Shl16(8, 12)
          [] v = "Store" ->
               BitOr(BitOr(Shl16(3, 12), Shl16(i[2], 9)), offset9_bits(i[3]))
          [] v = "StoreIndirect" ->
               BitOr(BitOr(Shl16(11, 12), Shl16(i[2], 9)), offset9_bits(i[3]))
          [] v = "StoreRegister" ->
               BitOr(BitOr(BitOr(Shl16(7, 12), Shl16(i[2], 9)), Shl16(i[3], 6)),
                     offset6_bits(i[4]))
          [] v = "Trap" -> BitOr(Shl16(15, 12), i[2])
          [] v = "Reserved" -> Shl16(13, 12)

-----------------------------------------------------------------------------
(* src/vm/machine.rs: ConditionCode, Memory                                *)

\* ConditionCode::into_flags
cc_into_flags(cc) ==
    CASE cc = "Negative" -> 4
      [] cc = "Zero"     -> 2
      [] cc = "Positive" -> 1

\* Memory(Vec<i16>): len is the Vec's length, data its nonzero elements
\* impl Index<u16> for Memory
\* mutant: an index of 0x8000 or more, negative as i16, reads as 0
MemIndex_signed(mem, index) ==
    IF index >= 32768 \/ index >= mem.len THEN 0
    ELSE IF index \in DOMAIN mem.data THEN mem.data[index] ELSE 0

MemIndex(mem, index) ==
    IF index >= mem.len THEN 0
    ELSE IF index \in DOMAIN mem.data THEN mem.data[index] ELSE 0

\* mutant: the vector is resized to index words, one short of the cell
ensure_space_short(mem, index) ==
    IF index >= mem.len THEN [mem EXCEPT !.len = index] ELSE mem

\* Memory::resize: Vec::resize(size, val) cuts the vector down to size
\* elements or fills it up to size elements with val
resize(mem, size, val) ==
    LET kept  == {a \in DOMAIN mem.data : a < size}
        added == IF val # 0 THEN mem.len..(size - 1) ELSE {}
    IN  [len  |-> size,
         data |-> [a \in kept \cup added |-> IF a \in kept THEN mem.data[a] ELSE val]]

\* Memory::ensure_space
ensure_space(mem, index) ==
    IF index >= mem.len THEN resize(mem, index + 1, 0) ELSE mem

\* mutant: like the reads of Index<u16>, a write beyond the vector's length
\* is dropped
MemStore_within_len(mem, index, value) ==
    IF index >= mem.len THEN mem
    ELSE [len  |-> mem.len,
          data |-> [a \in (IF value = 0 THEN DOMAIN mem.data \ {index}
                                        ELSE DOMAIN mem.data \cup {index})
                    |-> IF a = index THEN value ELSE mem.data[a]]]

\* impl IndexMut<u16> for Memory, followed by the assignment of value
MemStore(mem, index, value) ==
    LET grown == ensure_space(mem, index)
        keep  == DOMAIN grown.data \ {index}
        dom   == IF value = 0 THEN keep ELSE keep \cup {index}
    IN  [len  |-> grown.len,
         data |-> [a \in dom |-> IF a = index THEN value ELSE grown.data[a]]]

-----------------------------------------------------------------------------
(* src/main.rs: the accessors of the word wrapper Instruction(pub i16).    *)
(* An Option is <<>> for None and the tuple of the payload for Some.       *)

None == <<>>

check_header(w, header) == Shr(AsU16(w), 12) = header
is_add(w) == check_header(w, 1)
is_and(w) == check_header(w, 5)
is_not(w) == check_header(w, 9)
check_bit_5(w) == I16And(I16Shr(w, 5), 1) # 0

get_branch(w) ==
    IF check_header(w, 0)
    THEN <<AsU8(BitAnd(Shr(AsU16(w), 9), 7)), AsI8(I16And(w, 255))>>
    ELSE None

\* mutant: the register is read from bits 11-9 instead of bits 8-6
get_jmp_bits_11_9(w) ==
    IF check_header(w, 12) THEN <<AsU8(I16And(I16Shr(w, 9), 7))>> ELSE None

get_jmp(w) ==
    IF check_header(w, 12) THEN <<AsU8(I16And(I16Shr(w, 6), 7))>> ELSE None

get_ld(w) ==
    IF check_header(w, 2)
    THEN <<AsU8(I16And(I16Shr(w, 9), 7)), AsI8(I16And(w, 255))>>
    ELSE None

get_lea(w) ==
    IF check_header(w, 14)
    THEN <<AsU8(I16And(I16Shr(w, 9), 7)), AsI8(I16And(w, 255))>>
    ELSE None

get_trap_vector(w) ==
    IF Shr(AsU16(w), 8) = 240 THEN <<AsU8(I16And(w, 255))>> ELSE None

get_dr_sr1_sr2(w) ==
    <<AsU8(I16And(I16Shr(w, 9), 7)), AsU8(I16And(I16Shr(w, 6), 7)), AsU8(I16And(w, 7))>>

get_dr_sr1_imm5(w) ==
    <<AsU8(I16And(I16Shr(w, 9), 7)), AsU8(I16And(I16Shr(w, 6), 7)), AsU8(I16And(w, 31))>>

get_dr_sr(w) ==
    <<AsU8(I16And(I16Shr(w, 9), 7)), AsU8(I16And(I16Shr(w, 6), 7))>>

(* The accessors machine.rs calls that no file under src/ defines, after   *)
(* the layout table of the specification (section 4.1): the opcode nibble, *)
(* bit 11 for JSR/JSRR, registers in bits 11-9 and 8-6, the offset         *)
(* sign-extended from its width.                                           *)

get_jsr(w) ==
    IF check_header(w, 4) /\ BitAnd(Shr(AsU16(w), 11), 1) # 0
    THEN <<PcOffset11_from(w)>>
    ELSE None

get_jsrr(w) ==
    IF check_header(w, 4) /\ BitAnd(Shr(AsU16(w), 11), 1) = 0
    THEN <<BitAnd(Shr(AsU16(w), 6), 7)>>
    ELSE None

get_ldi(w) ==
    IF check_header(w, 10)
    THEN <<BitAnd(Shr(AsU16(w), 9), 7), PcOffset9_from(w)>>
    ELSE None

get_ldr(w) ==
    IF check_header(w, 6)
    THEN <<BitAnd(Shr(AsU16(w), 9), 7), BitAnd(Shr(AsU16(w), 6), 7), Offset6_from(w)>>
    ELSE None

get_st(w) ==
    IF check_header(w, 3)
    THEN <<BitAnd(Shr(AsU16(w), 9), 7), PcOffset9_from(w)>>
    ELSE None

get_sti(w) ==
    IF check_header(w, 11)
    THEN <<BitAnd(Shr(AsU16(w), 9), 7), PcOffset9_from(w)>>
    ELSE None

get_str(w) ==
    IF check_header(w, 7)
    THEN <<BitAnd(Shr(AsU16(w), 9), 7), BitAnd(Shr(AsU16(w), 6), 7), Offset6_from(w)>>
    ELSE None

-----------------------------------------------------------------------------
(* src/vm/machine.rs: Machine.  The operators below take and return the    *)
(* machine as a record m of its fields; oc tells whether the build checks  *)
(* arithmetic overflow (debug profile: panic) or wraps (release profile).  *)

OverflowPanic == "attempt to add with overflow"

Panic(m, message) == [m EXCEPT !.panicked = message]

\* mutant: the arm for positive values starts at 0, before the arm for 0
set_condition_code_zero_positive(m, reg) ==
    [m EXCEPT !.condition_code =
        IF m.registers[reg] >= 0 THEN "Positive" ELSE "Negative"]

\* Machine::set_condition_code_based_on
set_condition_code_based_on(m, reg) ==
    [m EXCEPT !.condition_code =
        IF m.registers[reg] = 0 THEN "Zero"
        ELSE IF m.registers[reg] >= 1 THEN "Positive"
        ELSE "Negative"]

\* a + b on i16: an overflowing sum panics under overflow checks (oc) and
\* wraps without them
I16AddOverflows(oc, a, b) == oc /\ (a + b) \notin I16

I16Add(a, b) == AsI16(a + b)

\* Machine::handle_add
handle_add(m, oc, instr) ==
    IF check_bit_5(instr)
    THEN LET f   == get_dr_sr1_imm5(instr)
             sr1 == m.registers[f[2]]
             Write(sum) ==
                 set_condition_code_based_on([m EXCEPT !.registers[f[1]] = sum], f[1])
         IN  IF I16AddOverflows(oc, sr1, f[3]) THEN Panic(m, OverflowPanic)
             ELSE Write(I16Add(sr1, f[3]))
    ELSE LET f   == get_dr_sr1_sr2(instr)
             sr1 == m.registers[f[2]]
             sr2 == m.registers[f[3]]
             Write(sum) ==
                 set_condition_code_based_on([m EXCEPT !.registers[f[1]] = sum], f[1])
         IN  IF I16AddOverflows(oc, sr1, sr2) THEN Panic(m, OverflowPanic)
             ELSE Write(I16Add(sr1, sr2))

\* Machine::handle_and
handle_and(m, instr) ==
    IF check_bit_5(instr)
    THEN LET f   == get_dr_sr1_imm5(instr)
             sr1 == m.registers[f[2]]
         IN  set_condition_code_based_on(
                 [m EXCEPT !.registers[f[1]] = I16And(sr1, f[3])], f[1])
    ELSE LET f   == get_dr_sr1_sr2(instr)
             sr1 == m.registers[f[2]]
             sr2 == m.registers[f[3]]
         IN  set_condition_code_based_on(
                 [m EXCEPT !.registers[f[1]] = I16And(sr1, sr2)], f[1])

\* mutant: the arithmetic negation -sr in place of the complement !sr
handle_not_negate(m, instr) ==
    LET f  == get_dr_sr(instr)
        sr == m.registers[f[2]]
    IN  set_condition_code_based_on([m EXCEPT !.registers[f[1]] = AsI16(0 - sr)], f[1])

\* Machine::handle_not
handle_not(m, instr) ==
    LET f  == get_dr_sr(instr)
        sr == m.registers[f[2]]
    IN  set_condition_code_based_on([m EXCEPT !.registers[f[1]] = I16Not(sr)], f[1])

\* The host streams behind stdin and stdout may fail any call.  The outcome io
\* of a step is <<>> when the host serves every call of the step and <<k>>
\* when it serves k calls and returns an error to the next one; .expect()
\* turns that error into a panic.
HostFailed(m, which, message) == Panic([m EXCEPT !.io_error = which], message)

\* the PUTS loop of handle_trap: n counts the words written so far; a scan
\* that has written all 65536 cells without meeting a zero word never ends
RECURSIVE puts_loop(_, _, _, _, _)
puts_loop(m, oc, io, addr, n) ==
    IF MemIndex(m.memory, addr) = 0
    THEN IF io = <<n>> THEN HostFailed(m, "flush", "Failed to flush stdout")
         ELSE [m EXCEPT !.flushed = Len(m.stdout)]
    ELSE IF n >= 65536 THEN Panic(m, "never returns")
    ELSE IF io = <<n>> THEN HostFailed(m, "write", "Failed to write to stdout")
    ELSE LET out == [m EXCEPT !.stdout = Append(@, AsU8(MemIndex(m.memory, addr)))]
         IN  IF addr + 1 <= 65535 THEN puts_loop(out, oc, io, addr + 1, n + 1)
             ELSE IF oc THEN Panic(out, OverflowPanic)
             ELSE puts_loop(out, oc, io, AsU16(addr + 1), n + 1)

\* the arms of Machine::handle_trap: getc, out, puts, halt
\* mutant: the byte is widened as a signed one (buf[0] as i8 as i16)
trap_getc_signed(m, io) ==
    IF io = <<0>> THEN HostFailed(m, "read", "failed to read stdin")
    ELSE IF m.stdin = <<>> THEN Panic(m, "failed to read stdin")
    ELSE [m EXCEPT !.stdin = Tail(@), !.registers[0] = AsI8(Head(m.stdin))]

trap_getc(m, io) ==
    IF io = <<0>> THEN HostFailed(m, "read", "failed to read stdin")
    ELSE IF m.stdin = <<>> THEN Panic(m, "failed to read stdin")
    ELSE [m EXCEPT !.stdin = Tail(@), !.registers[0] = AsI16(Head(m.stdin))]

\* mutant: the result of write_all is dropped instead of unwrapped
trap_out_unchecked(m, io) ==
    IF io = <<0>> THEN [m EXCEPT !.io_error = "write"]
    ELSE [m EXCEPT !.stdout = Append(@, AsU8(m.registers[0]))]

\* mutant: the byte written is the low 7 bits of R0
trap_out_seven_bits(m, io) ==
    IF io = <<0>> THEN HostFailed(m, "write", "Failed to write to stdout")
    ELSE [m EXCEPT !.stdout = Append(@, AsU8(m.registers[0]) % 128)]

trap_out(m, io) ==
    IF io = <<0>> THEN HostFailed(m, "write", "Failed to write to stdout")
    ELSE [m EXCEPT !.stdout = Append(@, AsU8(m.registers[0]))]

trap_puts(m, oc, io) == puts_loop(m, oc, io, AsU16(m.registers[0]), 0)

\* mutant: the halt arm leaves the latch alone
trap_halt_no_latch(m) == m

\* mutant: the halt arm flips the latch
trap_halt_toggle(m) == [m EXCEPT !.halted = ~@]

trap_halt(m) == [m EXCEPT !.halted = TRUE]

\* mutant: the trap saves ip into R7 before it dispatches, as the ISA does
handle_trap_linking(m, oc, io, vec) ==
    LET linked == [m EXCEPT !.registers[7] = AsI16(m.ip)]
    IN  CASE vec = 32 -> trap_getc(linked, io)
          [] vec = 33 -> trap_out(linked, io)
          [] vec = 34 -> trap_puts(linked, oc, io)
          [] vec = 35 -> Panic(linked, "not yet implemented")
          [] vec = 37 -> trap_halt(linked)
          [] OTHER -> Panic(linked, "not yet implemented")

\* Machine::handle_trap
handle_trap(m, oc, io, vec) ==
    CASE vec = 32 -> trap_getc(m, io)
      [] vec = 33 -> trap_out(m, io)
      [] vec = 34 -> trap_puts(m, oc, io)
      [] vec = 35 -> Panic(m, "not yet implemented")
      [] vec = 37 -> trap_halt(m)
      [] OTHER -> Panic(m, "not yet implemented")

\* Machine::evaluate
evaluate(m, oc, io, instr) ==
    IF is_add(instr) THEN handle_add(m, oc, instr)
    ELSE IF is_and(instr) THEN handle_and(m, instr)
    ELSE IF get_branch(instr) # None THEN
        LET flags  == get_branch(instr)[1]
            offset == get_branch(instr)[2]
        IN  IF BitAnd(cc_into_flags(m.condition_code), flags) # 0
            THEN [m EXCEPT !.ip = AsU16(m.ip + offset), !.jumped = TRUE]
            ELSE m
    ELSE IF get_jmp(instr) # None THEN
        [m EXCEPT !.ip = AsU16(m.registers[get_jmp(instr)[1]]), !.jumped = TRUE]
    ELSE IF get_jsr(instr) # None THEN
        [m EXCEPT !.registers[7] = AsI16(m.ip),
                  !.ip = AsU16(m.ip + get_jsr(instr)[1])]
    ELSE IF get_jsrr(instr) # None THEN
        LET linked == [m EXCEPT !.registers[7] = AsI16(m.ip)]
            addr   == linked.registers[get_jsrr(instr)[1]]
        IN  [linked EXCEPT !.ip = AsU16(addr)]
    ELSE IF get_ld(instr) # None THEN
        LET dr    == get_ld(instr)[1]
            value == MemIndex(m.memory, AsU16(m.ip + get_ld(instr)[2]))
        IN  set_condition_code_based_on([m EXCEPT !.registers[dr] = value], dr)
    ELSE IF get_ldi(instr) # None THEN
        LET dr    == get_ldi(instr)[1]
            addr  == MemIndex(m.memory, AsU16(m.ip + get_ldi(instr)[2]))
            value == MemIndex(m.memory, AsU16(addr))
        IN  set_condition_code_based_on([m EXCEPT !.registers[dr] = value], dr)
    ELSE IF get_ldr(instr) # None THEN
        LET f == get_ldr(instr)
            Read(addr) ==
                set_condition_code_based_on(
                    [m EXCEPT !.registers[f[1]] = MemIndex(m.memory, AsU16(addr))], f[1])
        IN  IF I16AddOverflows(oc, m.registers[f[2]], f[3]) THEN Panic(m, OverflowPanic)
            ELSE Read(I16Add(m.registers[f[2]], f[3]))
    ELSE IF get_lea(instr) # None THEN
        LET dr == get_lea(instr)[1]
            effective_addr == AsI16(m.ip + get_lea(instr)[2])
        IN  set_condition_code_based_on([m EXCEPT !.registers[dr] = effective_addr], dr)
    ELSE IF is_not(instr) THEN handle_not(m, instr)
    ELSE IF get_st(instr) # None THEN
        LET sr   == get_st(instr)[1]
            addr == AsU16(m.ip + get_st(instr)[2])
        IN  set_condition_code_based_on(
                [m EXCEPT !.memory = MemStore(@, addr, m.registers[sr])], sr)
    ELSE IF get_sti(instr) # None THEN
        LET sr   == get_sti(instr)[1]
            addr == MemIndex(m.memory, AsU16(m.ip + get_sti(instr)[2]))
        IN  set_condition_code_based_on(
                [m EXCEPT !.memory = MemStore(@, AsU16(addr), m.registers[sr])], sr)
    ELSE IF get_str(instr) # None THEN
        LET f == get_str(instr)
            Write(addr) ==
                set_condition_code_based_on(
                    [m EXCEPT !.memory = MemStore(@, AsU16(addr), m.registers[f[1]])], f[1])
        IN  IF I16AddOverflows(oc, m.registers[f[2]], f[3]) THEN Panic(m, OverflowPanic)
            ELSE Write(I16Add(m.registers[f[2]], f[3]))
    ELSE IF get_trap_vector(instr) # None THEN
        handle_trap(m, oc, io, get_trap_vector(instr)[1])
    ELSE m

\* Machine::step
step(m, oc, io) ==
    LET instr == MemIndex(m.memory, m.ip)
    IN  IF m.ip + 1 <= 65535 THEN evaluate([m EXCEPT !.ip = m.ip + 1], oc, io, instr)
        ELSE IF oc THEN Panic(m, OverflowPanic)
        ELSE evaluate([m EXCEPT !.ip = AsU16(m.ip + 1)], oc, io, instr)

\* Machine::new; instructions is the sequence of the words inst.0
new(read, orig, instructions) ==
    [registers      |-> [r \in 0..7 |-> 0],
     memory         |-> [len  |-> orig + Len(instructions),
                         data |-> [a \in {orig + i - 1 : i \in {j \in 1..Len(instructions) :
                                                                 instructions[j] # 0}}
                                   |-> instructions[a - orig + 1]]],
     ip             |-> orig,
     condition_code |-> "Zero",
     halted         |-> FALSE,
     jumped         |-> FALSE,
     stdin          |-> read,
     stdout         |-> <<>>,
     flushed        |-> 0,
     io_error       |-> "none",
     panicked       |-> "none"]

\* the loop of Machine::set_span_at: memory[i] = value[value_index] for the
\* addresses i of index..end, value_index counting from 0
RECURSIVE span_loop(_, _, _, _, _)
span_loop(mem, i, end, value, value_index) ==
    IF i >= end THEN mem
    ELSE span_loop(MemStore(mem, i, value[value_index + 1]), i + 1, end, value,
                   value_index + 1)

\* Machine::set_memory_at
set_memory_at(m, index, value) == [m EXCEPT !.memory = MemStore(@, index, value)]

\* Machine::set_span_at: the end of the range is index + value.len() as u16,
\* a sum on u16
set_span_at(m, oc, index, value) ==
    LET len == AsU16(Len(value))
    IN  IF index + len <= 65535
        THEN [m EXCEPT !.memory = span_loop(@, index, index + len, value, 0)]
        ELSE IF oc THEN Panic(m, OverflowPanic)
        ELSE [m EXCEPT !.memory = span_loop(@, index, AsU16(index + len), value, 0)]

\* *registers.get_mut(i) = value: Registers::get_mut hands out the element
\* reg[i], which the caller assigns
get_mut(m, i, value) == [m EXCEPT !.registers[i] = value]

\* bit_util::convert_str_to_i16_vec: each byte of the string, `s as i16`
convert_str_to_i16_vec(str) == [i \in 1..Len(str) |-> AsI16(str[i])]

\* Machine::string_set; the string is the sequence of its bytes
string_set(m, oc, index, value) ==
    set_span_at(m, oc, index, convert_str_to_i16_vec(value))

-----------------------------------------------------------------------------
(* The codec harness: one application of a pure function to one input.     *)

Registers == 0..7

\* the values of the narrow operand types: what From<i16> returns, which depends
\* on the low bits of its argument only, so 2^11 consecutive arguments give all
Literals == -1024..1023

Immediate5Values == {Immediate5_from(v) : v \in Literals}
Offset6Values    == {Offset6_from(v) : v \in Literals}
PcOffset9Values  == {PcOffset9_from(v) : v \in Literals}
PcOffset11Values == {PcOffset11_from(v) : v \in Literals}
FlagValues       == [negative : BOOLEAN, zero : BOOLEAN, positive : BOOLEAN]

Idle == [fn |-> "idle", arg |-> 0, mid |-> 0, res |-> 0]

\* Instruction::decode(w)
DecodeWord ==
    /\ call = Idle
    /\ \E w \in U16 : call' = [fn |-> "decode", arg |-> w, mid |-> 0, res |-> decode(w)]
    /\ UNCHANGED machine_vars

\* decode(w).encode(), for a decode that returned
EncodeDecoded ==
    /\ call.fn = "decode"
    /\ call.res[1] # "panic"
    /\ call' = [fn |-> "decode_encode", arg |-> call.arg, mid |-> call.res,
                res |-> encode(call.res)]
    /\ UNCHANGED machine_vars

\* i.encode(), for every value i of the enum Instruction that safe code can
\* construct
Encoding(i) == call' = [fn |-> "encode", arg |-> i, mid |-> 0, res |-> encode(i)]

EncodeInstruction ==
    /\ call = Idle
    /\ \/ \E a \in Registers, b \in Registers, c \in Registers : Encoding(<<"Add", a, b, c>>)
       \/ \E a \in Registers, b \in Registers, n \in Immediate5Values :
             Encoding(<<"AddImmediate", a, b, n>>)
       \/ \E a \in Registers, b \in Registers, c \in Registers : Encoding(<<"And", a, b, c>>)
       \/ \E a \in Registers, b \in Registers, n \in Immediate5Values :
             Encoding(<<"AndImmediate", a, b, n>>)
       \/ \E f \in FlagValues, o \in PcOffset9Values : Encoding(<<"Branch", f, o>>)
       \/ \E a \in Registers : Encoding(<<"Jump", a>>)
       \/ \E o \in PcOffset11Values : Encoding(<<"JumpSubroutine", o>>)
       \/ \E a \in Registers : Encoding(<<"JumpSubroutineRegister", a>>)
       \/ \E a \in Registers, o \in PcOffset9Values : Encoding(<<"Load", a, o>>)
       \/ \E a \in Registers, o \in PcOffset9Values : Encoding(<<"LoadIndirect", a, o>>)
       \/ \E a \in Registers, b \in Registers, o \in Offset6Values :
             Encoding(<<"LoadRegister", a, b, o>>)
       \/ \E a \in Registers, o \in PcOffset9Values :
             Encoding(<<"LoadEffectiveAddress", a, o>>)
       \/ \E a \in Registers, b \in Registers : Encoding(<<"Not", a, b>>)
       \/ Encoding(<<"ReturnToInterrupt">>)
       \/ \E a \in Registers, o \in PcOffset9Values : Encoding(<<"Store", a, o>>)
       \/ \E a \in Registers, o \in PcOffset9Values : Encoding(<<"StoreIndirect", a, o>>)
       \/ \E a \in Registers, b \in Registers, o \in Offset6Values :
             Encoding(<<"StoreRegister", a, b, o>>)
       \/ \E t \in U8 : Encoding(<<"Trap", t>>)
       \/ Encoding(<<"Reserved">>)
    /\ UNCHANGED machine_vars

\* Instruction::decode(i.encode())
DecodeEncoded ==
    /\ call.fn = "encode"
    /\ call' = [fn |-> "encode_decode", arg |-> call.arg, mid |-> call.res,
                res |-> decode(call.res)]
    /\ UNCHANGED machine_vars

\* Immediate5::from(v), Offset6::from(v), PcOffset9::from(v), PcOffset11::from(v)
FromI16 ==
    /\ call = Idle
    /\ \E v \in I16 :
           \/ call' = [fn |-> "from", arg |-> v, mid |-> 5, res |-> Immediate5_from(v)]
           \/ call' = [fn |-> "from", arg |-> v, mid |-> 6, res |-> Offset6_from(v)]
           \/ call' = [fn |-> "from", arg |-> v, mid |-> 9, res |-> PcOffset9_from(v)]
           \/ call' = [fn |-> "from", arg |-> v, mid |-> 11, res |-> PcOffset11_from(v)]
    /\ UNCHANGED machine_vars

-----------------------------------------------------------------------------
(* The machine under an embedder: construction, step, run_until_halt.      *)

MaxSteps == 6

\* the host serves every call of a step, or fails one of its first calls
MaxServed == 1
HostOutcomes == {<<>>} \cup {<<k>> : k \in 0..MaxServed}

\* the fields of the Machine as one record, and their assignment
Machine ==
    [registers |-> registers, memory |-> memory, ip |-> ip,
     condition_code |-> condition_code, halted |-> halted, jumped |-> jumped,
     stdin |-> stdin, stdout |-> stdout, flushed |-> flushed, io_error |-> io_error,
     panicked |-> panicked]

Is(m) ==
    /\ registers = m.registers
    /\ memory = m.memory
    /\ ip = m.ip
    /\ condition_code = m.condition_code
    /\ halted = m.halted
    /\ jumped = m.jumped
    /\ stdin = m.stdin
    /\ stdout = m.stdout
    /\ flushed = m.flushed
    /\ io_error = m.io_error
    /\ panicked = m.panicked

Becomes(m) ==
    /\ registers' = m.registers
    /\ memory' = m.memory
    /\ ip' = m.ip
    /\ condition_code' = m.condition_code
    /\ halted' = m.halted
    /\ jumped' = m.jumped
    /\ stdin' = m.stdin
    /\ stdout' = m.stdout
    /\ flushed' = m.flushed
    /\ io_error' = m.io_error
    /\ panicked' = m.panicked

\* the word of an instruction value, as the image holds it
W(i) == AsI16(encode(i))

NZP == [negative |-> TRUE, zero |-> TRUE, positive |-> TRUE]
Mask(n) == DesiredConditionFlags_from(n)

\* Program images: a branch over two data words d1 and d2, their loads into
\* registers ra and rb, the instruction word x under study, and HALT.
Image(ra, rb, x, d1, d2) ==
    <<W(<<"Branch", NZP, 2>>), d1, d2,
      W(<<"Load", ra, -3>>), W(<<"Load", rb, -3>>), x, W(<<"Trap", 37>>)>>

Origins == {12288, 65530}

Data1(orig) == {0, 1, -1, 32767, -32768, 72, orig + 1 - (IF orig >= 32768 THEN 65536 ELSE 0)}
Data2 == {0, 1, -1}

\* instruction words studied with R1 and R2 loaded
WordsR1R2 ==
    {W(i) : i \in
        {<<"Add", 0, 1, 2>>, <<"Add", 1, 1, 1>>,
         <<"AddImmediate", 0, 1, 1>>, <<"AddImmediate", 0, 1, -1>>,
         <<"AddImmediate", 1, 1, 15>>, <<"AddImmediate", 0, 1, -16>>,
         <<"And", 0, 1, 2>>, <<"AndImmediate", 0, 1, -1>>,
         <<"AndImmediate", 0, 1, 0>>, <<"AndImmediate", 1, 1, 5>>,
         <<"Not", 0, 1>>, <<"Not", 1, 1>>,
         <<"Jump", 1>>, <<"JumpSubroutineRegister", 1>>,
         <<"JumpSubroutine", 3>>, <<"JumpSubroutine", -1024>>, <<"JumpSubroutine", 1023>>,
         <<"Load", 0, -5>>, <<"Load", 0, 255>>, <<"Load", 0, -256>>,
         <<"LoadIndirect", 0, -5>>, <<"LoadIndirect", 0, -4>>,
         <<"LoadRegister", 0, 1, 0>>, <<"LoadRegister", 0, 1, 1>>,
         <<"LoadRegister", 0, 1, -1>>, <<"LoadRegister", 1, 1, -32>>,
         <<"LoadEffectiveAddress", 0, 2>>, <<"LoadEffectiveAddress", 0, -1>>,
         <<"LoadEffectiveAddress", 0, 255>>,
         <<"Store", 1, -5>>, <<"Store", 1, 1>>,
         <<"StoreIndirect", 2, -5>>,
         <<"StoreRegister", 2, 1, 0>>, <<"StoreRegister", 2, 1, 1>>,
         <<"ReturnToInterrupt">>, <<"Reserved">>}
        \cup {<<"Branch", Mask(n), 1>> : n \in 0..7}
        \cup {<<"Branch", NZP, o>> : o \in {-6, 127, 128, -256}}}

\* instruction words studied with R0 and R7 loaded; -3803 is 0xF125, a TRAP
\* word whose bits 11-8 are not zero
WordsR0R7 ==
    {W(i) : i \in
        {<<"Jump", 7>>, <<"JumpSubroutineRegister", 7>>, <<"JumpSubroutine", -2>>,
         <<"Not", 7, 0>>, <<"LoadRegister", 0, 7, 0>>,
         <<"Trap", 32>>, <<"Trap", 33>>, <<"Trap", 34>>, <<"Trap", 35>>,
         <<"Trap", 36>>, <<"Trap", 37>>, <<"Trap", 0>>}}
    \cup {-3803}

Inputs == {<<>>, <<7, 200>>, <<200, 7>>}

\* Programs of traps: OUT, GETC, HALT and an OUT behind the HALT; and PUTS
\* below an image that ends at address 0xFFFF, with R0 at the last word of
\* the image (-1) or at its second word (-6)
TrapScenarios ==
    {[orig |-> 12288, read |-> r,
      image |-> <<W(<<"Trap", 33>>), W(<<"Trap", 32>>), W(<<"Trap", 37>>),
                  W(<<"Trap", 33>>)>>] : r \in {<<7>>}}
    \cup
    {[orig |-> 65529, read |-> <<>>, image |-> Image(0, 7, W(<<"Trap", 34>>), d1, d2)] :
        d1 \in {-1, -6}, d2 \in {0, 1}}

Scenarios ==
    TrapScenarios
    \cup
    {[orig |-> o, read |-> <<7, 200>>, image |-> Image(1, 2, x, d1, d2)] :
        o \in Origins, x \in WordsR1R2, d1 \in UNION {Data1(q) : q \in Origins}, d2 \in Data2}
    \cup
    {[orig |-> o, read |-> r, image |-> Image(0, 7, x, d1, d2)] :
        o \in Origins, r \in Inputs, x \in WordsR0R7,
        d1 \in UNION {Data1(q) : q \in Origins}, d2 \in Data2}

Nothing == [op |-> "new", pre |-> new(<<>>, 0, <<>>)]

\* Machine::new(read, write, orig, instructions)
Init ==
    /\ call = Idle
    /\ \E s \in Scenarios : \E m \in {new(s.read, s.orig, s.image)} : Is(m)
    /\ pc = "idle"
    /\ steps = 0
    /\ last = Nothing

\* machine.step(), called by the embedder, also on a machine whose
\* run_until_halt has returned
Step ==
    /\ pc \in {"idle", "returned"}
    /\ panicked = "none"
    /\ steps < MaxSteps
    /\ \E m \in {step(Machine, oc, io) : oc \in BOOLEAN, io \in HostOutcomes} :
          /\ Becomes(m)
          /\ last' = [op |-> "step", pre |-> Machine]
    /\ steps' = steps + 1
    /\ UNCHANGED <<call, pc>>

\* machine.run_until_halt(): entry
RunUntilHalt ==
    /\ pc = "idle"
    /\ panicked = "none"
    /\ pc' = "loop"
    /\ last' = [op |-> "run_until_halt", pre |-> Machine]
    /\ UNCHANGED <<call, registers, memory, ip, condition_code, halted, jumped,
                   stdin, stdout, flushed, io_error, panicked, steps>>

\* while !self.halted { self.step(); }
RunLoopStep ==
    /\ pc = "loop"
    /\ panicked = "none"
    /\ ~halted
    /\ steps < MaxSteps
    /\ \E m \in {step(Machine, oc, io) : oc \in BOOLEAN, io \in HostOutcomes} :
          /\ Becomes(m)
          /\ last' = [op |-> "step", pre |-> Machine]
    /\ steps' = steps + 1
    /\ UNCHANGED <<call, pc>>

\* the loop condition fails: run_until_halt returns
RunLoopExit ==
    /\ pc = "loop"
    /\ panicked = "none"
    /\ halted
    /\ pc' = "returned"
    /\ last' = [op |-> "return", pre |-> Machine]
    /\ UNCHANGED <<call, registers, memory, ip, condition_code, halted, jumped,
                   stdin, stdout, flushed, io_error, panicked, steps>>

Next == Step \/ RunUntilHalt \/ RunLoopStep \/ RunLoopExit

Spec == Init /\ [][Next]_vars

\* the codec functions applied to their inputs, beside a machine at rest
InitCodec ==
    /\ call = Idle
    /\ \E m \in {new(<<>>, 12288, <<>>)} : Is(m)
    /\ pc = "idle"
    /\ steps = 0
    /\ last = Nothing

NextCodec == DecodeWord \/ EncodeDecoded \/ EncodeInstruction \/ DecodeEncoded

SpecCodec == InitCodec /\ [][NextCodec]_vars

\* the narrow operand types built from every i16
NextFrom == FromI16

SpecFrom == InitCodec /\ [][NextFrom]_vars

\* the range checks of bit_util applied to every value of their parameter
\* type: i8 for check_i5_range and check_i6_range, i16 for the other two
CheckI5Range ==
    /\ call = Idle
    /\ \E x \in I8 :
           call' = [fn |-> "check_i5_range", arg |-> x, mid |-> 0, res |-> check_i5_range(x)]
    /\ UNCHANGED machine_vars

CheckI6Range ==
    /\ call = Idle
    /\ \E x \in I8 :
           call' = [fn |-> "check_i6_range", arg |-> x, mid |-> 0, res |-> check_i6_range(x)]
    /\ UNCHANGED machine_vars

CheckI9Range ==
    /\ call = Idle
    /\ \E x \in I16 :
           call' = [fn |-> "check_i9_range", arg |-> x, mid |-> 0, res |-> check_i9_range(x)]
    /\ UNCHANGED machine_vars

CheckI11Range ==
    /\ call = Idle
    /\ \E x \in I16 :
           call' = [fn |-> "check_i11_range", arg |-> x, mid |-> 0,
                    res |-> check_i11_range(x)]
    /\ UNCHANGED machine_vars

NextRange == CheckI5Range \/ CheckI6Range \/ CheckI9Range \/ CheckI11Range

SpecRange == InitCodec /\ [][NextRange]_vars

\* the programs run_until_halt is studied on: those of R0 and R7, whose word
\* under study is HALT, another trap, a TRAP word get_trap_vector does not
\* recognise, or a jump
HaltScenarios ==
    {[orig |-> o, read |-> r, image |-> Image(0, 7, x, d1, 0)] :
        o \in Origins, r \in Inputs, x \in WordsR0R7, d1 \in {0, 72}}

\* Machine::new(read, write, orig, instructions)
InitHalt ==
    /\ call = Idle
    /\ \E s \in HaltScenarios : \E m \in {new(s.read, s.orig, s.image)} : Is(m)
    /\ pc = "idle"
    /\ steps = 0
    /\ last = Nothing

\* run_until_halt keeps running: its loop takes its next iteration or exit
FairSpec == InitHalt /\ [][Next]_vars /\ WF_vars(RunLoopStep) /\ WF_vars(RunLoopExit)

-----------------------------------------------------------------------------
(* The memory of the machine under an embedder that writes it with          *)
(* set_memory_at, set_span_at and string_set between steps.  call holds the *)
(* arguments of the constructor and of the last helper called.              *)

\* the embedder's first MaxWrites calls may be helper calls; a span holds up
\* to MaxSpan words
MaxWrites == 2
MaxSpan == 2

\* programs that load R1 from the third word d and then store or load
MemoryOrigins == {12288, 65534}
MemoryWords ==
    {W(i) : i \in {<<"Store", 1, 1>>, <<"StoreIndirect", 1, 0>>,
                   <<"StoreRegister", 1, 1, 1>>}}
MemoryData == {5, 32767, -1}
MemoryScenarios ==
    {[orig |-> o, read |-> <<>>, image |-> <<W(<<"Load", 1, 1>>), x, d>>] :
        o \in MemoryOrigins, x \in MemoryWords, d \in MemoryData}
    \cup
    {[orig |-> 12288, read |-> <<>>, image |-> <<W(<<"Trap", 37>>), W(<<"Trap", 37>>)>>]}

WriteAddresses == {0, 65535}
WriteValues == {0, 5}
SpanAddresses == {0, 65535}
SpanValues == {[i \in 1..n |-> 4 + i] : n \in 0..MaxSpan}
StringAddresses == {12287, 65534}
Strings == {[i \in 1..n |-> IF i = 1 THEN 65 ELSE 200] : n \in 0..MaxSpan}

\* Machine::new(read, write, orig, instructions)
InitMemory ==
    /\ \E s \in MemoryScenarios :
          /\ \E m \in {new(s.read, s.orig, s.image)} : Is(m)
          /\ call = [fn |-> "new", arg |-> <<s.orig, s.image>>, mid |-> 0, res |-> 0]
    /\ pc = "idle"
    /\ steps = 0
    /\ last = Nothing

\* machine.set_memory_at(index, value), called by the embedder
SetMemoryAt ==
    /\ pc = "idle"
    /\ panicked = "none"
    /\ steps < MaxWrites
    /\ \E index \in WriteAddresses, value \in WriteValues :
          /\ \E m \in {set_memory_at(Machine, index, value)} : Becomes(m)
          /\ call' = [fn |-> "set_memory_at", arg |-> <<index, value>>, mid |-> 0,
                      res |-> 0]
    /\ last' = [op |-> "set_memory_at", pre |-> Machine]
    /\ steps' = steps + 1
    /\ UNCHANGED pc

\* machine.set_span_at(index, value), called by the embedder
SetSpanAt ==
    /\ pc = "idle"
    /\ panicked = "none"
    /\ steps < MaxWrites
    /\ \E index \in SpanAddresses, value \in SpanValues :
          /\ \E m \in {set_span_at(Machine, oc, index, value) : oc \in BOOLEAN} : Becomes(m)
          /\ call' = [fn |-> "set_span_at", arg |-> <<index, value>>, mid |-> 0,
                      res |-> 0]
    /\ last' = [op |-> "set_span_at", pre |-> Machine]
    /\ steps' = steps + 1
    /\ UNCHANGED pc

\* machine.string_set(index, value), called by the embedder
StringSet ==
    /\ pc = "idle"
    /\ panicked = "none"
    /\ steps < MaxWrites
    /\ \E index \in StringAddresses, value \in Strings :
          /\ \E m \in {string_set(Machine, oc, index, value) : oc \in BOOLEAN} : Becomes(m)
          /\ call' = [fn |-> "string_set", arg |-> <<index, value>>, mid |-> 0,
                      res |-> 0]
    /\ last' = [op |-> "string_set", pre |-> Machine]
    /\ steps' = steps + 1
    /\ UNCHANGED pc

\* the embedder's first MaxCalls calls may be direct calls of evaluate, of
\* Registers::get_mut and of the methods of Memory
MaxCalls == 1

\* the words of direct calls of evaluate (HALT; ADD R0, R0, #1), the register
\* writes through get_mut, and the arguments of resize and ensure_space
EvaluateWords == {-4059, 4129}
RegisterWrites == {<<0, 5>>}
ResizeArguments == {<<1, 0>>, <<12292, 7>>}
EnsureIndexes == {20000}

\* machine.evaluate(Instruction(w)), called by the embedder: no fetch, ip is
\* not incremented
Evaluate ==
    /\ pc = "idle"
    /\ panicked = "none"
    /\ steps < MaxCalls
    /\ \E w \in EvaluateWords :
          /\ \E m \in {evaluate(Machine, oc, io, w) : oc \in BOOLEAN, io \in HostOutcomes} :
                 Becomes(m)
          /\ call' = [fn |-> "evaluate", arg |-> <<w>>, mid |-> 0, res |-> 0]
    /\ last' = [op |-> "evaluate", pre |-> Machine]
    /\ steps' = steps + 1
    /\ UNCHANGED pc

\* *machine.registers.get_mut(i) = value, written by the embedder
RegistersGetMut ==
    /\ pc = "idle"
    /\ panicked = "none"
    /\ steps < MaxCalls
    /\ \E w \in RegisterWrites :
          /\ \E m \in {get_mut(Machine, w[1], w[2])} : Becomes(m)
          /\ call' = [fn |-> "get_mut", arg |-> w, mid |-> 0, res |-> 0]
    /\ last' = [op |-> "get_mut", pre |-> Machine]
    /\ steps' = steps + 1
    /\ UNCHANGED pc

\* machine.memory.resize(size, val), called by the embedder
MemoryResize ==
    /\ pc = "idle"
    /\ panicked = "none"
    /\ steps < MaxCalls
    /\ \E a \in ResizeArguments :
          /\ \E m \in {[Machine EXCEPT !.memory = resize(@, a[1], a[2])]} : Becomes(m)
          /\ call' = [fn |-> "resize", arg |-> a, mid |-> 0, res |-> 0]
    /\ last' = [op |-> "resize", pre |-> Machine]
    /\ steps' = steps + 1
    /\ UNCHANGED pc

\* machine.memory.ensure_space(index), called by the embedder
MemoryEnsureSpace ==
    /\ pc = "idle"
    /\ panicked = "none"
    /\ steps < MaxCalls
    /\ \E index \in EnsureIndexes :
          /\ \E m \in {[Machine EXCEPT !.memory = ensure_space(@, index)]} : Becomes(m)
          /\ call' = [fn |-> "ensure_space", arg |-> <<index>>, mid |-> 0, res |-> 0]
    /\ last' = [op |-> "ensure_space", pre |-> Machine]
    /\ steps' = steps + 1
    /\ UNCHANGED pc

NextMemory ==
    \/ Step \/ SetMemoryAt \/ SetSpanAt \/ StringSet
    \/ Evaluate \/ RegistersGetMut \/ MemoryResize \/ MemoryEnsureSpace

SpecMemory == InitMemory /\ [][NextMemory]_vars

-----------------------------------------------------------------------------
(* Properties of the codec                                                 *)

\* bits hi..lo of the word w, by arithmetic
Bits(w, hi, lo) == (w \div Pow2(lo)) % Pow2(hi - lo + 1)

\* the low width bits of the two's-complement pattern of the signed value v
Field(v, width) == v % Pow2(width)

\* the signed range of a two's-complement field of the given width
Range(width) == (0 - Pow2(width - 1))..(Pow2(width - 1) - 1)

\* C1: for every constructible Instruction i, decode(encode(i)) is i.
C1_RoundTrip == call.fn = "encode_decode" => call.res = call.arg

\* the sample of the test check_branch_bits: Branch(nzp, -1) encodes to
\* 0000111111111111 and decodes to itself
C1_Witness ==
    /\ call.fn = "encode_decode"
    /\ call.arg = <<"Branch", NZP, -1>>
    /\ call.mid = 4095
    /\ call.res = <<"Branch", NZP, -1>>

\* a word in which every bit the layout table fixes has the table's value
Canonical(w) ==
    LET op == Bits(w, 15, 12)
    IN  CASE op \in {1, 5} -> Bits(w, 5, 5) = 1 \/ Bits(w, 4, 3) = 0
          [] op = 12       -> Bits(w, 11, 9) = 0 /\ Bits(w, 5, 0) = 0
          [] op = 4        -> Bits(w, 11, 11) = 1
                              \/ (Bits(w, 10, 9) = 0 /\ Bits(w, 5, 0) = 0)
          [] op = 9        -> Bits(w, 5, 0) = 63
          [] op = 8        -> Bits(w, 11, 0) = 0
          [] op = 15       -> Bits(w, 11, 8) = 0
          [] op = 13       -> Bits(w, 11, 0) = 0
          [] OTHER         -> TRUE

\* C2 as stated: encode(decode(w)) is w for every word w whose opcode nibble
\* is not 0b1101.
C2_AsStated ==
    (call.fn = "decode_encode" /\ Bits(call.arg, 15, 12) # 13) => call.res = call.arg

\* C2, amended: for a word w whose opcode nibble is not 0b1101,
\* encode(decode(w)) is w exactly when the bits of w that the layout table
\* fixes have the table's values; decode drops those bits and encode writes
\* the table's values back.
C2_CanonicalRoundTrip ==
    (call.fn = "decode_encode" /\ Bits(call.arg, 15, 12) # 13)
        => (call.res = call.arg <=> Canonical(call.arg))

\* NOT R0, R1 round-trips, low six bits all ones
C2_Witness ==
    /\ call.fn = "decode_encode"
    /\ call.arg = 36991
    /\ call.mid = <<"Not", 0, 1>>
    /\ call.res = 36991

\* C3: decode returns an Instruction for every word (no panic); opcode 1101
\* gives Reserved, 1000 gives ReturnToInterrupt, bit 5 selects the immediate
\* form of ADD and AND, bit 11 selects JumpSubroutine over
\* JumpSubroutineRegister.
C3_DecodeTotal ==
    call.fn = "decode" =>
        LET w  == call.arg
            op == Bits(w, 15, 12)
            v  == call.res[1]
        IN  /\ v # "panic"
            /\ op = 13 => call.res = <<"Reserved">>
            /\ op = 8 => call.res = <<"ReturnToInterrupt">>
            /\ op = 1 => v = (IF Bits(w, 5, 5) = 1 THEN "AddImmediate" ELSE "Add")
            /\ op = 5 => v = (IF Bits(w, 5, 5) = 1 THEN "AndImmediate" ELSE "And")
            /\ op = 4 => v = (IF Bits(w, 11, 11) = 1 THEN "JumpSubroutine"
                              ELSE "JumpSubroutineRegister")

\* a word of opcode 1101 with other bits set decodes to Reserved
C3_Witness ==
    /\ call.fn = "decode"
    /\ call.arg = 53539
    /\ call.res = <<"Reserved">>

\* the word the layout table prescribes for an instruction value
Layout(i) ==
    LET v == i[1]
    IN  CASE v = "Add"          -> 1 * 4096 + i[2] * 512 + i[3] * 64 + i[4]
          [] v = "AddImmediate" -> 1 * 4096 + i[2] * 512 + i[3] * 64 + 32 + Field(i[4], 5)
          [] v = "And"          -> 5 * 4096 + i[2] * 512 + i[3] * 64 + i[4]
          [] v = "AndImmediate" -> 5 * 4096 + i[2] * 512 + i[3] * 64 + 32 + Field(i[4], 5)
          [] v = "Branch"       -> (IF i[2].negative THEN 2048 ELSE 0)
                                   + (IF i[2].zero THEN 1024 ELSE 0)
                                   + (IF i[2].positive THEN 512 ELSE 0) + Field(i[3], 9)
          [] v = "Jump"         -> 12 * 4096 + i[2] * 64
          [] v = "JumpSubroutine" -> 4 * 4096 + 2048 + Field(i[2], 11)
          [] v = "JumpSubroutineRegister" -> 4 * 4096 + i[2] * 64
          [] v = "Load"         -> 2 * 4096 + i[2] * 512 + Field(i[3], 9)
          [] v = "LoadIndirect" -> 10 * 4096 + i[2] * 512 + Field(i[3], 9)
          [] v = "LoadRegister" -> 6 * 4096 + i[2] * 512 + i[3] * 64 + Field(i[4], 6)
          [] v = "LoadEffectiveAddress" -> 14 * 4096 + i[2] * 512 + Field(i[3], 9)
          [] v = "Not"          -> 9 * 4096 + i[2] * 512 + i[3] * 64 + 63
          [] v = "ReturnToInterrupt" -> 8 * 4096
          [] v = "Store"        -> 3 * 4096 + i[2] * 512 + Field(i[3], 9)
          [] v = "StoreIndirect" -> 11 * 4096 + i[2] * 512 + Field(i[3], 9)
          [] v = "StoreRegister" -> 7 * 4096 + i[2] * 512 + i[3] * 64 + Field(i[4], 6)
          [] v = "Trap"         -> 15 * 4096 + i[2]
          [] v = "Reserved"     -> 13 * 4096

\* C4: encode puts the opcode in bits 15-12 and every field at the position
\* of the layout table, the unused bits at the table's fixed values.
C4_BitExact == call.fn = "encode" => call.res = Layout(call.arg)

\* the sample of the test add_instr with a negative immediate:
\* AddImmediate(R0, R1, -1) is 0001 000 001 1 11111
C4_Witness ==
    /\ call.fn = "encode"
    /\ call.arg = <<"AddImmediate", 0, 1, -1>>
    /\ call.res = 4223

\* C5: an operand of width W in {5, 6, 9, 11} built from an i16 v is the sign
\* extension of the low W bits of v, lies in the signed W-bit range, and is v
\* itself when v is in that range.
C5_SignExtension ==
    call.fn = "from" =>
        LET width == call.mid
            v     == call.arg
        IN  /\ call.res \in Range(width)
            /\ call.res = ((v + Pow2(width - 1)) % Pow2(width)) - Pow2(width - 1)
            /\ v \in Range(width) => call.res = v

\* the minimum of the 5-bit range is kept
C5_Witness ==
    /\ call.fn = "from"
    /\ call.mid = 5
    /\ call.arg = -16
    /\ call.res = -16

\* C6 as stated: building a narrow operand from a value outside its signed
\* range is a construction error and yields no operand.
C6_OutOfRangeRejected ==
    (call.fn = "from" /\ call.arg \notin Range(call.mid)) => call.res \notin I16

-----------------------------------------------------------------------------
(* Properties of the execution core.  last.pre is the machine before the   *)
(* last operation; the instruction of a step is named by decoding the word *)
(* it fetched.                                                             *)

Pre == last.pre
Stepped == last.op = "step"
Returned == Stepped /\ panicked = "none"
Fetched == MemIndex(Pre.memory, Pre.ip)
Executed == decode(AsU16(Fetched))
PostFetch == IF last.op = "evaluate" THEN Pre.ip ELSE (Pre.ip + 1) % 65536

SignOf(value) ==
    IF value < 0 THEN "Negative" ELSE IF value = 0 THEN "Zero" ELSE "Positive"

WritesDr == {"Add", "AddImmediate", "And", "AndImmediate", "Not", "Load",
             "LoadIndirect", "LoadRegister", "LoadEffectiveAddress"}
Links == {"JumpSubroutine", "JumpSubroutineRegister"}
IsGetc == get_trap_vector(Fetched) = <<32>>

\* C7 as stated: after a step that executed an instruction writing a general
\* register (the nine of WritesDr, JSR and JSRR writing R7, GETC writing R0),
\* the condition code is the sign of the value written.
C7_AsStated ==
    Returned =>
        /\ Executed[1] \in WritesDr => condition_code = SignOf(registers[Executed[2]])
        /\ Executed[1] \in Links => condition_code = SignOf(registers[7])
        /\ IsGetc => condition_code = SignOf(registers[0])

\* C7, amended: after a step that executed ADD, ADD-immediate, AND,
\* AND-immediate, NOT, LD, LDI, LDR or LEA the condition code is the sign of
\* the value written to the destination register; JSR, JSRR and GETC write R7
\* or R0 and leave the condition code as it was.
C7_FlagLaw ==
    Returned =>
        /\ Executed[1] \in WritesDr => condition_code = SignOf(registers[Executed[2]])
        /\ Executed[1] \in Links => condition_code = Pre.condition_code
        /\ IsGetc => condition_code = Pre.condition_code

\* an ADD whose sum is negative after a zero flag: 0 + (-1)
C7_Witness ==
    /\ Returned
    /\ Executed = <<"Add", 0, 1, 2>>
    /\ Pre.condition_code # "Negative"
    /\ registers[0] < 0
    /\ condition_code = "Negative"

NotTaken ==
    \/ Executed[1] \notin {"Branch", "Jump", "JumpSubroutine", "JumpSubroutineRegister"}
    \/ /\ Executed[1] = "Branch"
       /\ BitAnd(into_flags(Executed[2]), cc_into_flags(Pre.condition_code)) = 0

\* the effective address of a PC-relative instruction: post-fetch ip + offset
EffectiveAddress(offset) == (PostFetch + offset) % 65536

\* C8 as stated: for every starting ip, 0xFFFF included, a step that executes
\* anything but a taken Branch, Jump, Jsr or Jsrr ends without a fault of the
\* ip arithmetic with ip at (old ip + 1) mod 2^16, and the PC-relative
\* effective addresses of Branch, Jsr, LD, LDI, LEA, ST and STI are taken from
\* that post-fetch ip.
C8_IpSemantics ==
    Stepped =>
        /\ NotTaken => ip = PostFetch
        /\ (Executed[1] = "Branch" /\ ~NotTaken) => ip = EffectiveAddress(Executed[3])
        /\ Executed[1] = "JumpSubroutine" => ip = EffectiveAddress(Executed[2])
        /\ (Returned /\ Executed[1] = "Load") =>
               registers[Executed[2]] = MemIndex(Pre.memory, EffectiveAddress(Executed[3]))
        /\ (Returned /\ Executed[1] = "LoadIndirect") =>
               registers[Executed[2]] =
                   MemIndex(Pre.memory,
                            AsU16(MemIndex(Pre.memory, EffectiveAddress(Executed[3]))))
        /\ (Returned /\ Executed[1] = "LoadEffectiveAddress") =>
               registers[Executed[2]] = AsI16(EffectiveAddress(Executed[3]))
        /\ (Returned /\ Executed[1] = "Store") =>
               MemIndex(memory, EffectiveAddress(Executed[3])) = Pre.registers[Executed[2]]
        /\ (Returned /\ Executed[1] = "StoreIndirect") =>
               MemIndex(memory, AsU16(MemIndex(Pre.memory, EffectiveAddress(Executed[3]))))
                   = Pre.registers[Executed[2]]

\* the step that executed Trap 0x25
ExecutedHalt == Returned /\ get_trap_vector(Fetched) = <<37>>

\* C9: run_until_halt returns only with the halt latch set, the latch is set
\* only by a step that executes Trap 0x25, the loop returns right after such a
\* step, and once the latch is set the running loop does return.
C9_Halt ==
    /\ [](pc = "returned" => halted)
    /\ [][(~halted /\ halted') => ExecutedHalt']_vars
    /\ [][(pc = "loop" /\ ExecutedHalt) => pc' = "returned"]_vars
    /\ ((pc = "loop" /\ halted) ~> pc = "returned")

\* run_until_halt has returned, and the word before ip is the Trap 0x25 the
\* last iteration executed
C9_Witness ==
    /\ pc = "returned"
    /\ halted
    /\ last.op = "return"
    /\ ip > 0
    /\ get_trap_vector(MemIndex(memory, ip - 1)) = <<37>>
    /\ steps >= 5

\* C10 as stated: for all values of R[s1] and R[s2] a step executing
\* Add(dr, s1, s2) ends without a fault and leaves R[dr] at the two's-complement
\* sum modulo 2^16.
C10_AddWraps ==
    (Stepped /\ Executed[1] = "Add") =>
        /\ panicked = "none"
        /\ registers[Executed[2]]
               = AsI16(Pre.registers[Executed[3]] + Pre.registers[Executed[4]])

-----------------------------------------------------------------------------
(* Properties of the single instructions.  The instruction a step executed *)
(* is read off the fetched word by arithmetic on its bits, and memory is   *)
(* read cell by cell, so that these properties do not lean on the          *)
(* operators of the machine they are about.                                *)

\* the embedder called evaluate itself, on a word of its own
Called == last.op = "evaluate"

\* evaluate ran: called by the embedder, or reached by a step that did not
\* fault at the increment of ip
Evaluated == Called \/ (Stepped /\ ~(Pre.ip = 65535 /\ panicked = OverflowPanic))

\* the word a memory holds at address a (0 where nothing was stored)
Cell(mem, a) == IF a < mem.len /\ a \in DOMAIN mem.data THEN mem.data[a] ELSE 0

\* the word evaluate was given (the word a step fetched, or the argument of
\* the embedder's call) as sixteen bits, and its fields
Word == AsU16(IF Called THEN call.arg[1] ELSE Cell(Pre.memory, Pre.ip))
Opcode == Bits(Word, 15, 12)
FieldDR == Bits(Word, 11, 9)
FieldSR1 == Bits(Word, 8, 6)
FieldSR2 == Bits(Word, 2, 0)

\* the low width bits of the fetched word, sign-extended
SExt(width) == ((Bits(Word, width - 1, 0) + Pow2(width - 1)) % Pow2(width)) - Pow2(width - 1)

\* a value as signed 16 bits, and as an unsigned 16-bit address
Signed16(v) == ((v + 32768) % 65536) - 32768
Address(v) == v % 65536

\* the bitwise AND of two signed 16-bit values, bit by bit
And16(a, b) ==
    LET bit(v, i) == (Address(v) \div Pow2(i)) % 2
        and(i) == bit(a, i) * bit(b, i) * Pow2(i)
    IN  Signed16(and(0) + and(1) + and(2) + and(3) + and(4) + and(5) + and(6) + and(7)
                 + and(8) + and(9) + and(10) + and(11) + and(12) + and(13) + and(14)
                 + and(15))

\* all registers but those of the set keep their values
RegistersKeptBut(set) == \A r \in 0..7 : r \notin set => registers[r] = Pre.registers[r]

\* C11 as stated: a step executing AddImm(dr, s1, imm5) ends without a fault
\* with R[dr] = R[s1] + imm5 (wrapping), imm5 being the 5-bit field
\* sign-extended, for every imm5 in -16..15.
C11_AddImmediate ==
    (Evaluated /\ Opcode = 1 /\ Bits(Word, 5, 5) = 1) =>
        /\ panicked = "none"
        /\ registers[FieldDR] = Signed16(Pre.registers[FieldSR1] + SExt(5))

\* C12 as stated: a step executing And(dr, s1, s2) leaves R[dr] = R[s1] & R[s2],
\* and one executing AndImm(dr, s1, imm5) leaves R[dr] = R[s1] & sext(imm5).
C12_And ==
    (Evaluated /\ Opcode = 5) =>
        /\ panicked = "none"
        /\ registers[FieldDR] =
               And16(Pre.registers[FieldSR1],
                     IF Bits(Word, 5, 5) = 1 THEN SExt(5) ELSE Pre.registers[FieldSR2])

\* C13: a step executing Not(dr, sr) leaves R[dr] at the bitwise complement of
\* R[sr], which is -R[sr] - 1, leaves R[sr] as it was when dr is not sr, and
\* sets the condition code from the result.
C13_Not ==
    (Evaluated /\ Opcode = 9) =>
        /\ panicked = "none"
        /\ registers[FieldDR] = 0 - Pre.registers[FieldSR1] - 1
        /\ FieldDR # FieldSR1 => registers[FieldSR1] = Pre.registers[FieldSR1]
        /\ condition_code = SignOf(registers[FieldDR])

\* NOT R0, R1 with R1 = 72: R0 is -73, R1 still 72, the flag Negative
C13_Witness ==
    /\ Evaluated
    /\ Opcode = 9 /\ FieldDR = 0 /\ FieldSR1 = 1
    /\ Pre.registers[1] = 72
    /\ registers[0] = -73
    /\ registers[1] = 72
    /\ condition_code = "Negative"

\* whether the branch mask of the fetched word selects the condition code
\* the step started with
MaskSelects ==
    \/ Bits(Word, 11, 11) = 1 /\ Pre.condition_code = "Negative"
    \/ Bits(Word, 10, 10) = 1 /\ Pre.condition_code = "Zero"
    \/ Bits(Word, 9, 9) = 1 /\ Pre.condition_code = "Positive"

\* C14 as stated: a step executing Branch(flags, off9) sets ip to post-fetch
\* ip + off9 (mod 2^16) exactly when the mask selects the current condition
\* code, else leaves it at the post-fetch value, for every off9 in -256..255;
\* condition code, registers and memory are unchanged.
C14_Branch ==
    (Evaluated /\ Opcode = 0) =>
        /\ panicked = "none"
        /\ ip = (IF MaskSelects THEN Address(PostFetch + SExt(9)) ELSE PostFetch)
        /\ condition_code = Pre.condition_code
        /\ registers = Pre.registers
        /\ memory = Pre.memory

\* C15: a step executing Jump(base) sets ip to R[base] taken as an unsigned
\* 16-bit value and changes no register, memory cell or condition code.
C15_Jump ==
    (Evaluated /\ Opcode = 12) =>
        /\ panicked = "none"
        /\ ip = Address(Pre.registers[FieldSR1])
        /\ registers = Pre.registers
        /\ memory = Pre.memory
        /\ condition_code = Pre.condition_code

\* JMP R1 with R1 = -1 goes to 0xFFFF
C15_Witness ==
    /\ Evaluated
    /\ Opcode = 12 /\ FieldSR1 = 1
    /\ Pre.registers[1] = -1
    /\ ip = 65535

\* C16: a step executing Jsr(off11) at address a leaves R7 at a + 1 (mod 2^16,
\* as a 16-bit pattern) and ip at a + 1 + off11 (mod 2^16), for every off11 in
\* -1024..1023.
C16_Jsr ==
    (Evaluated /\ Opcode = 4 /\ Bits(Word, 11, 11) = 1) =>
        /\ panicked = "none"
        /\ registers[7] = Signed16(PostFetch)
        /\ ip = Address(PostFetch + SExt(11))

\* JSR -1024 at 0x3005: R7 is 0x3006 and ip is 0x3006 - 1024
C16_Witness ==
    /\ Evaluated
    /\ Opcode = 4 /\ Bits(Word, 11, 11) = 1
    /\ Pre.ip = 12293
    /\ SExt(11) = -1024
    /\ registers[7] = 12294
    /\ ip = 11270

\* C17 as stated: a step executing Jsrr(base) at address a sets ip to the
\* value R[base] held before the instruction and R7 to a + 1, for every base
\* register, R7 included.
C17_Jsrr ==
    (Evaluated /\ Opcode = 4 /\ Bits(Word, 11, 11) = 0) =>
        /\ panicked = "none"
        /\ ip = Address(Pre.registers[FieldSR1])
        /\ registers[7] = Signed16(PostFetch)

\* C18 as stated: a step executing Load(dr, off9) at address a leaves R[dr] at
\* memory[a + 1 + off9 mod 2^16], for every off9 in -256..255, and memory
\* unchanged.
C18_Load ==
    (Evaluated /\ Opcode = 2) =>
        /\ panicked = "none"
        /\ registers[FieldDR] = Cell(Pre.memory, Address(PostFetch + SExt(9)))
        /\ memory = Pre.memory

\* C19: a step executing LoadIndirect(dr, off9) at address a leaves R[dr] at
\* memory[p], p being the word memory[a + 1 + off9 mod 2^16] taken as an
\* unsigned 16-bit address, and memory unchanged.
C19_LoadIndirect ==
    (Evaluated /\ Opcode = 10) =>
        /\ panicked = "none"
        /\ registers[FieldDR] =
               Cell(Pre.memory,
                    Address(Cell(Pre.memory, Address(PostFetch + SExt(9)))))
        /\ memory = Pre.memory

\* LDI R0, -5 at 0xFFFF: the pointer word at 0xFFFB is -5, the address 0xFFFB
\* itself, and R0 is loaded from there
C19_Witness ==
    /\ Evaluated
    /\ Opcode = 10 /\ FieldDR = 0
    /\ Pre.ip = 65535
    /\ SExt(9) = -5
    /\ Cell(Pre.memory, 65531) = -5
    /\ registers[0] = -5

\* C20 as stated: a step executing LoadRegister(dr, base, off6) ends without a
\* fault with R[dr] = memory[R[base] + off6 mod 2^16], for every value of
\* R[base] and every off6 in -32..31.
C20_LoadRegister ==
    (Evaluated /\ Opcode = 6) =>
        /\ panicked = "none"
        /\ registers[FieldDR] =
               Cell(Pre.memory, Address(Pre.registers[FieldSR1] + SExt(6)))

\* every address but those of the set reads as it did before the operation
CellsKeptBut(set) ==
    \A a \in DOMAIN memory.data \cup DOMAIN Pre.memory.data :
        (a \in 0..65535 /\ a \notin set) => Cell(memory, a) = Cell(Pre.memory, a)

\* C21 as stated: a step executing LoadEffectiveAddress(dr, off9) at address
\* a leaves R[dr] at the 16-bit pattern of a + 1 + off9 mod 2^16, for every
\* off9 in -256..255, sets the condition code from that value and leaves
\* memory and the other registers alone.
C21_LoadEffectiveAddress ==
    (Evaluated /\ Opcode = 14) =>
        /\ panicked = "none"
        /\ registers[FieldDR] = Signed16(PostFetch + SExt(9))
        /\ condition_code = SignOf(Signed16(PostFetch + SExt(9)))
        /\ RegistersKeptBut({FieldDR})
        /\ memory = Pre.memory

\* C22: a step executing Store(sr, off9) at address a leaves
\* memory[a + 1 + off9 mod 2^16] at R[sr] and changes no other memory cell
\* and no register.
C22_Store ==
    (Evaluated /\ Opcode = 3) =>
        /\ panicked = "none"
        /\ Cell(memory, Address(PostFetch + SExt(9))) = Pre.registers[FieldDR]
        /\ CellsKeptBut({Address(PostFetch + SExt(9))})
        /\ registers = Pre.registers

\* ST R1, 1 at 0x3005 with R1 = -1: the cell 0x3007, one past the end of the
\* image, read 0 before the step and reads -1 after it
C22_Witness ==
    /\ Evaluated
    /\ Opcode = 3 /\ FieldDR = 1 /\ SExt(9) = 1
    /\ Pre.ip = 12293
    /\ Pre.registers[1] = -1
    /\ Pre.memory.len = 12295
    /\ Cell(Pre.memory, 12295) = 0
    /\ Cell(memory, 12295) = -1

\* C23: a step executing StoreIndirect(sr, off9) at address a leaves
\* memory[p] at R[sr], p being the word memory[a + 1 + off9 mod 2^16] read
\* before the store and taken as an unsigned 16-bit address, and changes no
\* other cell (the pointer cell changes only when p is its own address).
C23_StoreIndirect ==
    (Evaluated /\ Opcode = 11) =>
        LET q == Address(PostFetch + SExt(9))
            p == Address(Cell(Pre.memory, q))
        IN  /\ panicked = "none"
            /\ Cell(memory, p) = Pre.registers[FieldDR]
            /\ CellsKeptBut({p})
            /\ registers = Pre.registers

\* STI R2, -5 at 0x3005 with the pointer word -1 at 0x3001 and R2 = 1: the
\* cell 0xFFFF, far beyond the image, reads 1 and the pointer cell still -1
C23_Witness ==
    /\ Evaluated
    /\ Opcode = 11 /\ FieldDR = 2 /\ SExt(9) = -5
    /\ Pre.ip = 12293
    /\ Cell(Pre.memory, 12289) = -1
    /\ Pre.registers[2] = 1
    /\ Cell(Pre.memory, 65535) = 0
    /\ Cell(memory, 65535) = 1
    /\ Cell(memory, 12289) = -1

\* C24 as stated: a step executing StoreRegister(sr, base, off6) ends without
\* a fault with memory[R[base] + off6 mod 2^16] = R[sr], for every value of
\* R[base] and every off6 in -32..31, and no other memory cell changed.
C24_StoreRegister ==
    (Evaluated /\ Opcode = 7) =>
        /\ panicked = "none"
        /\ Cell(memory, Address(Pre.registers[FieldSR1] + SExt(6))) = Pre.registers[FieldDR]
        /\ CellsKeptBut({Address(Pre.registers[FieldSR1] + SExt(6))})

\* C27 as stated: a step that fetches a word of opcode 0b1000 (RTI) or 0b1101
\* (Reserved) ends in a fatal error, so that the machine does not go on to
\* the following instruction.
C27_FatalOpcodes ==
    (Evaluated /\ Opcode \in {8, 13}) => panicked # "none"

\* the fetched word is a TRAP of the layout table (bits 11-8 zero); its vector
IsTrap == Opcode = 15 /\ Bits(Word, 11, 8) = 0
TrapVector == Bits(Word, 7, 0)

\* C28: a step executing a TRAP ends in a fatal error, and no further step
\* follows, when the vector is none of 0x20, 0x21, 0x22, 0x25, when the vector
\* is GETC and the input is exhausted or the read fails, and when the vector
\* is OUT or PUTS and the host fails a write or the flush.
C28_TrapFailures ==
    (Evaluated /\ IsTrap) =>
        /\ TrapVector \notin {32, 33, 34, 37} => panicked # "none"
        /\ (TrapVector = 32 /\ Pre.stdin = <<>>) => panicked # "none"
        /\ io_error # "none" => panicked # "none"
        /\ panicked # "none" => ~ENABLED Next

\* OUT whose write the host fails: the step panics and nothing is written
C28_Witness ==
    /\ Evaluated
    /\ IsTrap /\ TrapVector = 33
    /\ io_error = "write"
    /\ panicked = "Failed to write to stdout"
    /\ stdout = Pre.stdout

\* C29: a step executing Trap 0x20 that returns has consumed exactly the next
\* unread byte b of the input, leaves R0 = b, a value in 0..255, and has
\* written nothing to the output.
C29_Getc ==
    (Returned /\ IsTrap /\ TrapVector = 32) =>
        /\ Pre.stdin # <<>>
        /\ stdin = Tail(Pre.stdin)
        /\ registers[0] = Head(Pre.stdin)
        /\ registers[0] \in 0..255
        /\ RegistersKeptBut({0})
        /\ stdout = Pre.stdout

\* GETC on the input 200, 7: R0 is 200, not -56, and the 7 is still unread
C29_Witness ==
    /\ Returned
    /\ IsTrap /\ TrapVector = 32
    /\ Pre.stdin = <<200, 7>>
    /\ stdin = <<7>>
    /\ registers[0] = 200

\* C30: a step executing Trap 0x21 that returns has appended exactly one byte
\* to the output, the low 8 bits of R0, and changed no register and no memory
\* cell.
C30_Out ==
    (Returned /\ IsTrap /\ TrapVector = 33) =>
        /\ stdout = Append(Pre.stdout, Address(Pre.registers[0]) % 256)
        /\ registers = Pre.registers
        /\ CellsKeptBut({})

\* OUT with R0 = -1 (0xFFFF): the byte written is 255
C30_Witness ==
    /\ Returned
    /\ IsTrap /\ TrapVector = 33
    /\ Pre.registers[0] = -1
    /\ stdout = Append(Pre.stdout, 255)

\* the addresses index, index + 1, ... of a span of n words
SpanCells(index, n) == {Address(index + i - 1) : i \in 1..n}

\* C25 as stated: memory behaves as a dense array of 2^16 words.  After
\* set_memory_at(a, v) address a reads v; after set_span_at(a, vs) with
\* a + len(vs) <= 2^16 address a + i reads vs[i]; after ST, STI and STR the
\* cell of C22, C23 and C24 reads the stored register; in each case no other
\* address reads differently and the call does not fault; and a step that
\* executes any other instruction, which only reads memory, leaves every
\* address reading as before.
C25_DenseMemory ==
    /\ last.op = "set_memory_at" =>
           /\ panicked = "none"
           /\ Cell(memory, call.arg[1]) = call.arg[2]
           /\ CellsKeptBut({call.arg[1]})
    /\ (last.op = "set_span_at" /\ call.arg[1] + Len(call.arg[2]) <= 65536) =>
           /\ panicked = "none"
           /\ \A i \in 1..Len(call.arg[2]) :
                  Cell(memory, call.arg[1] + i - 1) = call.arg[2][i]
           /\ CellsKeptBut(SpanCells(call.arg[1], Len(call.arg[2])))
    /\ (Evaluated /\ Opcode = 3) =>
           /\ Cell(memory, Address(PostFetch + SExt(9))) = Pre.registers[FieldDR]
           /\ CellsKeptBut({Address(PostFetch + SExt(9))})
    /\ (Evaluated /\ Opcode = 11) =>
           LET p == Address(Cell(Pre.memory, Address(PostFetch + SExt(9))))
           IN  Cell(memory, p) = Pre.registers[FieldDR] /\ CellsKeptBut({p})
    /\ (Evaluated /\ Opcode = 7) =>
           LET p == Address(Pre.registers[FieldSR1] + SExt(6))
           IN  /\ panicked = "none"
               /\ Cell(memory, p) = Pre.registers[FieldDR]
               /\ CellsKeptBut({p})
    /\ (Evaluated /\ Opcode \notin {3, 7, 11}) => CellsKeptBut({})

\* C26 as stated: for every origin and program image, the machine the
\* constructor returns has ip at the origin, the condition code Zero, the
\* halt latch clear, all eight registers zero, program[i] readable at
\* address origin + i for every i, and zero at every other address.
C26_Constructor ==
    (last.op = "new" /\ call.fn = "new") =>
        LET orig  == call.arg[1]
            image == call.arg[2]
            Held  == SpanCells(orig, Len(image))
        IN  /\ ip = orig
            /\ condition_code = "Zero"
            /\ halted = FALSE
            /\ \A r \in 0..7 : registers[r] = 0
            /\ \A i \in 1..Len(image) : Cell(memory, Address(orig + i - 1)) = image[i]
            /\ \A a \in DOMAIN memory.data :
                   (a \in 0..65535 /\ a \notin Held) => Cell(memory, a) = 0

\* the bytes of the string at address a of the memory before the step: the
\* low 8 bits of each word up to the first zero word, the address wrapping
\* from 0xFFFF to 0; n counts the words taken
RECURSIVE StringAt(_, _)
StringAt(a, n) ==
    IF n >= 65536 \/ Cell(Pre.memory, a) = 0 THEN <<>>
    ELSE <<Address(Cell(Pre.memory, a)) % 256>> \o StringAt(Address(a + 1), n + 1)

\* the step executed Trap 0x22 and the host served its writes and its flush
ExecutedPuts == Evaluated /\ IsTrap /\ TrapVector = 34 /\ io_error = "none"

\* C31 as stated: a step executing Trap 0x22 with R0 = s appends to the
\* output the low 8 bits of the words memory[s], memory[s+1], ... up to the
\* first zero word (nothing when memory[s] = 0), flushes the output, and
\* leaves R0, the other registers and memory unchanged.
C31_Puts ==
    ExecutedPuts =>
        /\ panicked = "none"
        /\ stdout = Pre.stdout \o StringAt(Address(Pre.registers[0]), 0)
        /\ flushed = Len(stdout)
        /\ registers = Pre.registers
        /\ CellsKeptBut({})

\* C40 as stated: in a memory that holds a zero word, a step executing Trap
\* 0x22 finishes without a fault for every R0, having emitted the finitely
\* many bytes of the string; a string that runs through address 0xFFFF is
\* followed on from address 0x0000.
C40_PutsTerminates ==
    (ExecutedPuts /\ \E a \in 0..65535 : Cell(Pre.memory, a) = 0) =>
        /\ panicked = "none"
        /\ Len(stdout) = Len(Pre.stdout) + Len(StringAt(Address(Pre.registers[0]), 0))

\* C34 as stated: when a step executing Trap 0x20 has read its byte, every
\* byte written to the output before that step has been flushed to the host.
C34_GetcFlushes ==
    (Returned /\ IsTrap /\ TrapVector = 32) => flushed >= Len(Pre.stdout)

\* C37 as stated: a step executing ST, STI or STR leaves the condition code
\* as it was.
C37_StoresKeepFlags ==
    (Evaluated /\ Opcode \in {3, 7, 11}) => condition_code = Pre.condition_code

\* C38: a step executing an implemented TRAP (vector 0x20, 0x21, 0x22 or
\* 0x25) leaves R7 as it was and ip at the post-fetch value; OUT, PUTS and
\* HALT change no register, no memory cell and not the condition code; GETC
\* changes no register but R0 and no memory cell.
C38_TrapFrame ==
    (Evaluated /\ IsTrap /\ TrapVector \in {32, 33, 34, 37}) =>
        /\ registers[7] = Pre.registers[7]
        /\ ip = PostFetch
        /\ CellsKeptBut({})
        /\ TrapVector = 32 => RegistersKeptBut({0})
        /\ TrapVector # 32 =>
               registers = Pre.registers /\ condition_code = Pre.condition_code

\* PUTS at 0x3005 with R7 = 1 and R0 at a string of at least two words: the
\* bytes are out, R7 is still 1 and not the return address, ip is 0x3006
C38_Witness ==
    /\ Returned
    /\ IsTrap /\ TrapVector = 34
    /\ Pre.ip = 12293
    /\ Pre.registers[7] = 1
    /\ Len(stdout) >= 2
    /\ registers[7] = 1
    /\ ip = 12294

\* C32 as stated: a step executing Trap 0x25 sets the halt latch and appends
\* nothing to the output, and once run_until_halt has returned the machine
\* writes no further byte to the output.
C32_Halt ==
    /\ []((Evaluated /\ IsTrap /\ TrapVector = 37) => (halted /\ stdout = Pre.stdout))
    /\ [][pc = "returned" => stdout' = stdout]_vars

\* C33 as stated: after string_set(addr, s) the cell addr + i holds byte i of
\* s for every i < len(s), and the cell addr + len(s) holds 0 whatever it held
\* before the call.
C33_StringSet ==
    last.op = "string_set" =>
        LET addr == call.arg[1]
            s    == call.arg[2]
        IN  /\ panicked = "none"
            /\ \A i \in 1..Len(s) : Cell(memory, Address(addr + i - 1)) = s[i]
            /\ Cell(memory, Address(addr + Len(s))) = 0

\* C35: the halt latch is clear in the machine the constructor returns, is
\* set only by the execution of Trap 0x25 (the word a step fetched, or the
\* word of a direct call of evaluate), whatever else is stepped or called,
\* and once set is never cleared.
C35_HaltLatch ==
    /\ [](last.op = "new" => halted = FALSE)
    /\ [][(~halted /\ halted') => (Evaluated /\ IsTrap /\ TrapVector = 37)']_vars
    /\ [][halted => halted']_vars

\* a helper has written the memory of a halted machine, and the latch is
\* still set
C35_Witness ==
    /\ last.op = "set_memory_at"
    /\ Pre.halted
    /\ memory # Pre.memory
    /\ halted

\* C39 as stated: for every index and slice with index + len <= 2^16,
\* set_span_at(index, values) ends without a fault with values[i] at address
\* index + i for every i < len, a span ending at address 0xFFFF included, and
\* no other cell changed.
C39_SpanAtTop ==
    (last.op = "set_span_at" /\ call.arg[1] + Len(call.arg[2]) <= 65536) =>
        /\ panicked = "none"
        /\ \A i \in 1..Len(call.arg[2]) :
               Cell(memory, call.arg[1] + i - 1) = call.arg[2][i]
        /\ CellsKeptBut(SpanCells(call.arg[1], Len(call.arg[2])))

\* the range check fn returned for exactly the arguments of lo..hi and failed
\* its assertion for every other
AcceptsExactly(fn, lo, hi) ==
    call.fn = fn =>
        IF call.arg \in lo..hi THEN call.res = <<"unit">> ELSE call.res[1] = "panic"

\* C36 as stated: check_i5_range accepts exactly -16..15, check_i6_range
\* exactly -32..31, check_i9_range exactly -256..255 and check_i11_range
\* exactly -1024..1023; each fails its assertion for every other value.
C36_RangeChecks ==
    /\ AcceptsExactly("check_i5_range", -16, 15)
    /\ AcceptsExactly("check_i6_range", -32, 31)
    /\ AcceptsExactly("check_i9_range", -256, 255)
    /\ AcceptsExactly("check_i11_range", -1024, 1023)

====
